---- MODULE Spec2Model ----
(***************************************************************************)
(* Panel registration of the C.A.F.E. integrations.                        *)
(*                                                                         *)
(*   custom_components/cafe/panel.py             custom web-component panel *)
(*   custom_components/flow_automator/__init__.py  iframe panel            *)
(*                                                                         *)
(* The host (Home Assistant) owns the panel registry                       *)
(* hass.data["frontend_panels"] and the table of static HTTP paths; the    *)
(* integrations call into it.  Text is modelled as a sequence of tokens    *)
(* (file names, URLs), so that globbing, URL construction and URL parsing  *)
(* are computed and not assumed.                                           *)
(*                                                                         *)
(* cafe's async_register_panel is a coroutine: it hands control back to    *)
(* the event loop at its two awaits (lines 24 and 49), and whatever the    *)
(* loop runs meanwhile (other handlers, further invocations of the same    *)
(* coroutine, a rebuild of the bundle, the passing of time) falls between  *)
(* its parts.  The other handlers have no await and run in one piece.      *)
(***************************************************************************)
EXTENDS Integers, Sequences, FiniteSets, Bags, TLC

(***************************************************************************)
(* Bounds of the model.                                                    *)
(***************************************************************************)
\* time.time() has sub-second resolution: clock ticks per second.
TicksPerSec == 2
\* The clock starts at this whole second (so that the decimal rendering of
\* the timestamp changes its number of digits within the run).
StartSecond == 9
\* The clock advances at most this many ticks.
MaxTicks == 3
\* Number of handler invocations started in one run.
MaxCalls == 2

(***************************************************************************)
(* Program constants.                                                      *)
(***************************************************************************)
\* cafe/const.py (imported by panel.py, line 10)
CAFE_DOMAIN == "cafe"
CAFE_PANEL_TITLE == "C.A.F.E."
CAFE_PANEL_ICON == "mdi:graph"
\* cafe/panel.py
PANEL_NAME == "cafe-panel"
CAFE_STATIC == "/cafe_static"
\* flow_automator/__init__.py
FLOW_DOMAIN == "flow_automator"
PANEL_TITLE == "C.A.F.E."
PANEL_ICON == "mdi:graph"
FLOW_STATIC == "/flow_automator_static"
FLOW_URL_PATH == "flow-automator"

(***************************************************************************)
(* Text: file names and URLs are sequences of tokens.                      *)
(***************************************************************************)
StartsWith(s, p) == Len(s) >= Len(p) /\ SubSeq(s, 1, Len(p)) = p
EndsWith(s, p) == Len(s) >= Len(p) /\ SubSeq(s, Len(s) - Len(p) + 1, Len(s)) = p

\* fnmatch of a name against "<prefix>*<suffix>": the star matches any,
\* possibly empty, run of tokens between the two literal parts.
FnMatch(name, prefix, suffix) ==
    /\ Len(name) >= Len(prefix) + Len(suffix)
    /\ StartsWith(name, prefix)
    /\ EndsWith(name, suffix)

Digit(d) == CASE d = 0 -> "0" [] d = 1 -> "1" [] d = 2 -> "2" [] d = 3 -> "3"
              [] d = 4 -> "4" [] d = 5 -> "5" [] d = 6 -> "6" [] d = 7 -> "7"
              [] d = 8 -> "8" [] d = 9 -> "9"

\* str(n) of a Python int n >= 0, as the f-string renders it.
RECURSIVE IntToStr(_)
IntToStr(n) == IF n < 10 THEN <<Digit(n)>>
               ELSE IntToStr(n \div 10) \o <<Digit(n % 10)>>

(***************************************************************************)
(* The packaged bundle: <component>/www/assets.                            *)
(***************************************************************************)
IndexA == <<"index-", "a1b2", ".js">>
IndexB == <<"index-", "c3d4", ".js">>
IndexAMap == <<"index-", "a1b2", ".js", ".map">>
MainA == <<"main-", "a1b2", ".js">>
FileNames == {IndexA, IndexB, IndexAMap, MainA}

\* The directory may be absent (files is empty when it is), empty, hold no
\* main script, one with its source map, or several.
AssetDirs == {[exists |-> FALSE, files |-> {}]}
             \cup {[exists |-> TRUE, files |-> fs] :
                      fs \in {{}, {IndexAMap, MainA}, {IndexA, IndexAMap},
                              {IndexB, IndexAMap, MainA}, {IndexA, IndexB}}}

VARIABLES
    assets,           \* content of <component>/www/assets on disk
    clock,            \* time.time(), in ticks
    static_paths,     \* the host's static HTTP routes
    frontend_panels,  \* hass.data["frontend_panels"]
    awaiting_static,  \* invocations of async_register_panel suspended at line 24
    awaiting_create,  \* bag of those suspended at line 49, with their locals
    last_call,        \* what the handler that finished last did
    ncalls            \* handler invocations started

vars == <<assets, clock, static_paths, frontend_panels, awaiting_static,
          awaiting_create, last_call, ncalls>>

(***************************************************************************)
(* The host's plugin API.                                                  *)
(***************************************************************************)
\* hass.http.async_register_static_paths / register_static_path: the route
\* is added unless the host raises.
HostRegisterStaticPath(paths, url_path, directory, cache_headers, fault) ==
    IF fault # ""
    THEN [paths |-> paths, error |-> fault]
    ELSE [paths |-> paths \cup {[url_path |-> url_path, path |-> directory,
                                 cache_headers |-> cache_headers]},
          error |-> ""]

\* frontend.async_register_built_in_panel (panel_custom.async_register_panel
\* ends in it): a dict keyed by frontend_url_path; an existing key is not
\* overwritten, the call raises ValueError.
HostRegisterPanel(panels, panel, fault) ==
    IF fault # ""
    THEN [panels |-> panels, error |-> fault]
    ELSE IF panel.frontend_url_path \in DOMAIN panels
    THEN [panels |-> panels, error |-> "ValueError"]
    ELSE [panels |-> [k \in DOMAIN panels \cup {panel.frontend_url_path} |->
                        IF k = panel.frontend_url_path THEN panel ELSE panels[k]],
          error |-> ""]

\* frontend.async_remove_panel: pops the key; an unknown panel is logged,
\* never raised.
HostRemovePanel(panels, url_path) ==
    [k \in DOMAIN panels \ {url_path} |-> panels[k]]

(***************************************************************************)
(* What a handler invocation did, as its caller and the host saw it.       *)
(***************************************************************************)
NoCall == [op |-> "none", outcome |-> "none", value |-> "", error |-> "",
           steps |-> <<>>, host_errors |-> {}, request |-> {}, popped |-> {},
           time |-> 0]

\* time is the clock at the handler's last look at it.
Call(op, outcome, value, error, steps, host_errors, request, popped, time) ==
    [op |-> op, outcome |-> outcome, value |-> value, error |-> error,
     steps |-> steps, host_errors |-> host_errors, request |-> request,
     popped |-> popped, time |-> time]

\* A handler without awaits: it starts and ends in one step.
Finish(call, paths, panels) ==
    /\ last_call' = call
    /\ static_paths' = paths
    /\ frontend_panels' = panels
    /\ ncalls' = ncalls + 1
    /\ UNCHANGED <<assets, clock, awaiting_static, awaiting_create>>

\* Faults the host may raise from a call into it ("" is none).
StaticFaults == {"", "RuntimeError"}
PopFaults == {"", "AttributeError"}
PanelFaults == {"", "HomeAssistantError"}

(***************************************************************************)
(* cafe/panel.py                                                           *)
(***************************************************************************)
\* Glob with the pattern "*.js": any script of the directory matches.
Glob_any_js(dir) ==
    IF dir.exists
    THEN {f \in dir.files : FnMatch(f, <<>>, <<".js">>)}
    ELSE {}

\* (www_path / "assets").glob("index-*.js"): a missing directory yields
\* nothing.
Glob(dir) ==
    IF dir.exists
    THEN {f \in dir.files : FnMatch(f, <<"index-">>, <<".js">>)}
    ELSE {}

\* [f for f in ... if not f.name.endswith('.map')]
js_files(dir) == {f \in Glob(dir) : ~EndsWith(f, <<".map">>)}

\* round(time.time()): the nearest second, not the whole second.
cache_bust_rounded(t) == (2 * t + TicksPerSec) \div (2 * TicksPerSec)

\* int(time.time())
cache_bust(t) == t \div TicksPerSec

\* The module URL built without the assets directory.
module_url_flat(js_filename, bust) ==
    <<CAFE_STATIC, "/">> \o js_filename \o <<"?", "v", "=">> \o IntToStr(bust)

\* f"/cafe_static/assets/{js_filename}?v={cache_bust}"
module_url(js_filename, bust) ==
    <<CAFE_STATIC, "/assets/">> \o js_filename \o <<"?", "v", "=">> \o IntToStr(bust)

\* The keyword arguments of panel_custom.async_register_panel.
CustomPanel(url) ==
    [component_name |-> "custom",
     webcomponent_name |-> PANEL_NAME,
     frontend_url_path |-> CAFE_DOMAIN,
     url |-> url,
     sidebar_title |-> CAFE_PANEL_TITLE,
     sidebar_icon |-> CAFE_PANEL_ICON,
     require_admin |-> TRUE,
     config_panel_domain |-> CAFE_DOMAIN]

\* Lines 41-46: hass.data.get("frontend_panels", {}).pop(DOMAIN, None) inside
\* try/except.  When the expression raises, nothing was removed and the bare
\* except swallows the error, so no error leaves this step.
PopExisting(panels, fault) ==
    IF fault # ""
    THEN [panels |-> panels, popped |-> {}]
    ELSE [panels |-> HostRemovePanel(panels, CAFE_DOMAIN),
          popped |-> IF CAFE_DOMAIN \in DOMAIN panels
                     THEN {panels[CAFE_DOMAIN]} ELSE {}]

\* The locals of an invocation suspended in the creation call of line 49.
Pending(panel, popped, pop_fault, time) ==
    [request |-> panel, popped |-> popped, pop_fault |-> pop_fault, time |-> time]

\* One invocation leaves the await of line 24.
Resumed ==
    /\ awaiting_static' = awaiting_static - 1
    /\ UNCHANGED <<assets, clock, static_paths, ncalls>>

\* IssueCreate with the removal outside any try/except: its error leaves the
\* handler.
IssueCreate_unguarded_pop(js_filename, pop_fault) ==
    LET url == module_url(js_filename, cache_bust(clock))
        rm == PopExisting(frontend_panels, pop_fault)
    IN  IF pop_fault # ""
        THEN /\ last_call' = Call("async_register_panel", "raised", "", pop_fault,
                                  <<"static", "glob", "pop">>,
                                  {<<"pop", pop_fault>>}, {}, {}, clock)
             /\ UNCHANGED <<frontend_panels, awaiting_create>>
        ELSE /\ frontend_panels' = rm.panels
             /\ awaiting_create' = awaiting_create
                   (+) SetToBag({Pending(CustomPanel(url), rm.popped, "", clock)})
             /\ UNCHANGED last_call

\* Lines 35-49: build the module URL from the clock, remove a prior
\* registration, call panel_custom.async_register_panel and await it.
IssueCreate(js_filename, pop_fault) ==
    LET url == module_url(js_filename, cache_bust(clock))
        rm == PopExisting(frontend_panels, pop_fault)
    IN  /\ frontend_panels' = rm.panels
        /\ awaiting_create' = awaiting_create
              (+) SetToBag({Pending(CustomPanel(url), rm.popped, pop_fault, clock)})
        /\ UNCHANGED last_call

\* Discover with the prior registration removed before the scan.
Discover_pop_first(pop_fault) ==
    LET found == js_files(assets)
        rm == PopExisting(frontend_panels, pop_fault)
    IN  IF found = {}
        THEN /\ last_call' = Call("async_register_panel", "returned", "None", "",
                                  <<"static", "pop", "glob">>, {}, {}, rm.popped,
                                  clock)
             /\ frontend_panels' = rm.panels
             /\ UNCHANGED awaiting_create
        ELSE \E js_filename \in found : IssueCreate(js_filename, pop_fault)

\* Lines 28-49: find the main JS file; without one, log and return.
\* js_files[0] is the first match in the directory's enumeration order,
\* which the file system decides.
Discover(pop_fault) ==
    LET found == js_files(assets)
    IN  IF found = {}
        THEN /\ last_call' = Call("async_register_panel", "returned", "None", "",
                                  <<"static", "glob">>, {}, {}, {}, clock)
             /\ UNCHANGED <<frontend_panels, awaiting_create>>
        ELSE \E js_filename \in found : IssueCreate(js_filename, pop_fault)

\* async_register_panel(hass), lines 18-26: up to the await of the static
\* path registration.  The host has added the route when it suspends the
\* caller; when it raises, the error leaves the handler.
async_register_panel ==
    /\ ncalls < MaxCalls
    /\ \E static_fault \in StaticFaults :
          LET sp == HostRegisterStaticPath(static_paths, CAFE_STATIC,
                                           "cafe/www", FALSE, static_fault)
          IN  /\ static_paths' = sp.paths
              /\ ncalls' = ncalls + 1
              /\ IF sp.error # ""
                 THEN /\ last_call' = Call("async_register_panel", "raised", "",
                                           sp.error, <<"static">>,
                                           {<<"static", sp.error>>}, {}, {}, clock)
                      /\ UNCHANGED awaiting_static
                 ELSE /\ awaiting_static' = awaiting_static + 1
                      /\ UNCHANGED last_call
    /\ UNCHANGED <<assets, clock, frontend_panels, awaiting_create>>

\* async_register_panel, lines 28-49: resumed after the await of line 24, up
\* to the await of the panel creation (or the early return of line 33).
after_static_paths ==
    /\ awaiting_static > 0
    /\ Resumed
    /\ \E pop_fault \in PopFaults :
          /\ pop_fault # "" => js_files(assets) # {}
          /\ Discover(pop_fault)

\* async_register_panel, lines 49-61: the host carries out the creation the
\* invocation awaits: it inserts the panel, or raises, and the handler ends.
after_register_panel ==
    /\ \E task \in BagToSet(awaiting_create), panel_fault \in PanelFaults :
          LET hp == HostRegisterPanel(frontend_panels, task.request, panel_fault)
              pop_err == IF task.pop_fault = "" THEN {}
                         ELSE {<<"pop", task.pop_fault>>}
          IN  /\ awaiting_create' = awaiting_create (-) SetToBag({task})
              /\ frontend_panels' = hp.panels
              /\ last_call' =
                    IF hp.error # ""
                    THEN Call("async_register_panel", "raised", "", hp.error,
                              <<"static", "glob", "pop", "create">>,
                              pop_err \cup {<<"create", hp.error>>},
                              {task.request}, task.popped, task.time)
                    ELSE Call("async_register_panel", "returned", "None", "",
                              <<"static", "glob", "pop", "create">>, pop_err,
                              {task.request}, task.popped, task.time)
    /\ UNCHANGED <<assets, clock, static_paths, awaiting_static, ncalls>>

\* async_unregister_panel removing the web component's name, not the domain.
async_unregister_panel_wrong_key ==
    /\ ncalls < MaxCalls
    /\ Finish(Call("async_unregister_panel", "returned", "None", "",
                   <<"remove">>, {}, {},
                   IF PANEL_NAME \in DOMAIN frontend_panels
                   THEN {frontend_panels[PANEL_NAME]} ELSE {}, clock),
              static_paths, HostRemovePanel(frontend_panels, PANEL_NAME))

\* async_unregister_panel(hass)
async_unregister_panel ==
    /\ ncalls < MaxCalls
    /\ Finish(Call("async_unregister_panel", "returned", "None", "",
                   <<"remove">>, {}, {},
                   IF CAFE_DOMAIN \in DOMAIN frontend_panels
                   THEN {frontend_panels[CAFE_DOMAIN]} ELSE {}, clock),
              static_paths, HostRemovePanel(frontend_panels, CAFE_DOMAIN))

(***************************************************************************)
(* flow_automator/__init__.py                                              *)
(***************************************************************************)
\* The iframe URL with a cache-busting parameter appended.
IframePanel_cache_busted ==
    [component_name |-> "iframe",
     webcomponent_name |-> "",
     frontend_url_path |-> FLOW_URL_PATH,
     url |-> <<FLOW_STATIC, "/index.html", "?", "v", "=">>
             \o IntToStr(cache_bust(clock)),
     sidebar_title |-> PANEL_TITLE,
     sidebar_icon |-> PANEL_ICON,
     require_admin |-> TRUE,
     config_panel_domain |-> ""]

\* The arguments of frontend.async_register_built_in_panel.
IframePanel ==
    [component_name |-> "iframe",
     webcomponent_name |-> "",
     frontend_url_path |-> FLOW_URL_PATH,
     url |-> <<FLOW_STATIC, "/index.html">>,
     sidebar_title |-> PANEL_TITLE,
     sidebar_icon |-> PANEL_ICON,
     require_admin |-> TRUE,
     config_panel_domain |-> ""]

\* async_setup with the static-path registration wrapped in try/except: the
\* failure is logged and the panel is registered all the same.
async_setup_swallow_static ==
    /\ ncalls < MaxCalls
    /\ \E static_fault \in StaticFaults, panel_fault \in PanelFaults :
          LET sp == HostRegisterStaticPath(static_paths, FLOW_STATIC,
                                           "flow_automator/www", FALSE, static_fault)
              hp == HostRegisterPanel(frontend_panels, IframePanel, panel_fault)
              st_err == IF sp.error = "" THEN {} ELSE {<<"static", sp.error>>}
          IN  IF hp.error # ""
              THEN Finish(Call("async_setup", "raised", "", hp.error,
                               <<"static", "create">>,
                               st_err \cup {<<"create", hp.error>>},
                               {IframePanel}, {}, clock),
                          sp.paths, hp.panels)
              ELSE Finish(Call("async_setup", "returned", "True", "",
                               <<"static", "create">>, st_err, {IframePanel}, {},
                               clock),
                          sp.paths, hp.panels)

\* async_setup(hass, config): a coroutine without any await; both host calls
\* are synchronous.
async_setup ==
    /\ ncalls < MaxCalls
    /\ \E static_fault \in StaticFaults, panel_fault \in PanelFaults :
          LET sp == HostRegisterStaticPath(static_paths, FLOW_STATIC,
                                           "flow_automator/www", FALSE, static_fault)
              hp == HostRegisterPanel(frontend_panels, IframePanel, panel_fault)
          IN  IF sp.error # ""
              THEN /\ panel_fault = ""
                   /\ Finish(Call("async_setup", "raised", "", sp.error,
                                  <<"static">>, {<<"static", sp.error>>}, {}, {},
                                  clock),
                             sp.paths, frontend_panels)
              ELSE IF hp.error # ""
              THEN Finish(Call("async_setup", "raised", "", hp.error,
                               <<"static", "create">>, {<<"create", hp.error>>},
                               {IframePanel}, {}, clock),
                          sp.paths, hp.panels)
              ELSE Finish(Call("async_setup", "returned", "True", "",
                               <<"static", "create">>, {}, {IframePanel}, {}, clock),
                          sp.paths, hp.panels)

\* async_setup_entry(hass, entry)
async_setup_entry ==
    /\ ncalls < MaxCalls
    /\ Finish(Call("async_setup_entry", "returned", "True", "", <<>>, {}, {}, {},
                   clock),
              static_paths, frontend_panels)

\* async_unload_entry(hass, entry)
async_unload_entry ==
    /\ ncalls < MaxCalls
    /\ Finish(Call("async_unload_entry", "returned", "True", "", <<>>, {}, {}, {},
                   clock),
              static_paths, frontend_panels)

(***************************************************************************)
(* The environment: the wall clock and the deployed bundle.                *)
(***************************************************************************)
Tick ==
    /\ clock < StartSecond * TicksPerSec + MaxTicks
    /\ clock' = clock + 1
    /\ UNCHANGED <<assets, static_paths, frontend_panels, awaiting_static,
                   awaiting_create, last_call, ncalls>>

\* A rebuild of the frontend replaces the content of www/assets.
Deploy ==
    /\ \E d \in AssetDirs : d # assets /\ assets' = d
    /\ UNCHANGED <<clock, static_paths, frontend_panels, awaiting_static,
                   awaiting_create, last_call, ncalls>>

Init ==
    /\ assets \in AssetDirs
    /\ clock = StartSecond * TicksPerSec
    /\ static_paths = {}
    /\ frontend_panels = <<>>
    /\ awaiting_static = 0
    /\ awaiting_create = EmptyBag
    /\ last_call = NoCall
    /\ ncalls = 0

Next ==
    \/ async_register_panel
    \/ after_static_paths
    \/ after_register_panel
    \/ async_unregister_panel
    \/ async_setup
    \/ async_setup_entry
    \/ async_unload_entry
    \/ Tick
    \/ Deploy

Spec == Init /\ [][Next]_vars

TypeOK ==
    /\ assets \in AssetDirs
    /\ clock \in StartSecond * TicksPerSec .. StartSecond * TicksPerSec + MaxTicks
    /\ ncalls \in 0 .. MaxCalls
    /\ awaiting_static \in 0 .. MaxCalls
    /\ IsABag(awaiting_create)
    /\ awaiting_static + BagCardinality(awaiting_create) <= ncalls
    /\ last_call.outcome \in {"none", "returned", "raised"}

(***************************************************************************)
(* Vocabulary of the properties.                                           *)
(***************************************************************************)
Steps(c) == {c.steps[i] : i \in 1 .. Len(c.steps)}

\* A handler without awaits runs, or async_register_panel fails at once in
\* its static-path call.
AtomicStep == ncalls' = ncalls + 1 /\ awaiting_static' = awaiting_static

\* async_register_panel starts and is suspended at line 24.
BeginStep == ncalls' = ncalls + 1 /\ awaiting_static' = awaiting_static + 1

\* An invocation runs from line 28 to its return at line 33 or to the await
\* of line 49; Issued is the creation request it then awaits, if any.
ScanStep == awaiting_static' = awaiting_static - 1
Issued == {t \in BagToSet(awaiting_create') :
             CopiesIn(t, awaiting_create') > CopiesIn(t, awaiting_create)}

\* The host carries out an awaited creation and the invocation ends.
CreateStep == BagCardinality(awaiting_create') = BagCardinality(awaiting_create) - 1

\* A handler invocation ends in this step; last_call' describes it.
EndStep == AtomicStep \/ (ScanStep /\ Issued = {}) \/ CreateStep

RegisterOps == {"async_register_panel", "async_setup"}

\* The integration's domain identifier.
DomainOf(op) == IF op = "async_register_panel" THEN CAFE_DOMAIN ELSE FLOW_DOMAIN

\* Number of registry entries for a domain identifier.
Entries(panels, d) == Cardinality({k \in DOMAIN panels : k = d})

\* The files of the assets directory named index-*.js that are not *.map.
MatchingFiles(dir) ==
    IF dir.exists
    THEN {f \in dir.files : /\ Len(f) >= 2
                            /\ f[1] = "index-"
                            /\ f[Len(f)] = ".js"
                            /\ f[Len(f)] # ".map"}
    ELSE {}

QueryMarks(u) == {i \in 1 .. Len(u) : u[i] = "?"}
FirstMark(u) == CHOOSE i \in QueryMarks(u) : \A j \in QueryMarks(u) : i <= j

\* Path component and query string of a URL.
UrlPath(u) == IF QueryMarks(u) = {} THEN u ELSE SubSeq(u, 1, FirstMark(u) - 1)
UrlQuery(u) == IF QueryMarks(u) = {} THEN <<>> ELSE SubSeq(u, FirstMark(u) + 1, Len(u))

DigitChars == {Digit(d) : d \in 0 .. 9}
DigitValue(c) == CHOOSE d \in 0 .. 9 : Digit(d) = c

\* A decimal numeral: digits only, no leading zero.
WellFormedNat(ds) ==
    /\ Len(ds) >= 1
    /\ \A i \in 1 .. Len(ds) : ds[i] \in DigitChars
    /\ Len(ds) > 1 => ds[1] # "0"

RECURSIVE StrToInt(_)
StrToInt(ds) == IF Len(ds) = 0 THEN 0
                ELSE 10 * StrToInt(SubSeq(ds, 1, Len(ds) - 1)) + DigitValue(ds[Len(ds)])

\* The query string is exactly v=<numeral>.
HasCacheBust(u) ==
    /\ Len(UrlQuery(u)) >= 3
    /\ SubSeq(UrlQuery(u), 1, 2) = <<"v", "=">>
    /\ WellFormedNat(SubSeq(UrlQuery(u), 3, Len(UrlQuery(u))))
CacheBustOf(u) == StrToInt(SubSeq(UrlQuery(u), 3, Len(UrlQuery(u))))

StaticFailed(c) == \E he \in c.host_errors : he[1] = "static"
CafeStaticPath == [url_path |-> CAFE_STATIC, path |-> "cafe/www", cache_headers |-> FALSE]

(***************************************************************************)
(* C1  For either panel kind, a register call that ends after a successful *)
(* register call of the same integration, and in which the host is not     *)
(* made to fail, leaves exactly one registry entry for the integration's   *)
(* domain; and the registry never holds more than one entry per domain.    *)
(***************************************************************************)
C1_OneEntryPerDomain ==
    [][ /\ \A d \in {CAFE_DOMAIN, FLOW_DOMAIN} : Entries(frontend_panels', d) <= 1
        /\ \A op \in RegisterOps :
              ( /\ EndStep
                /\ last_call.op = op
                /\ last_call.outcome = "returned"
                /\ last_call.request # {}
                /\ last_call'.op = op
                /\ last_call'.request # {}
                /\ last_call'.host_errors \subseteq {<<"create", "ValueError">>} )
              => Entries(frontend_panels', DomainOf(op)) = 1 ]_vars

(***************************************************************************)
(* C2  A custom-element registration that, past the static path, scans an  *)
(* assets directory without any index-*.js file that is not a *.map file   *)
(* (the directory may be missing) returns normally there: it issues no     *)
(* panel creation request and creates no registry entry.                   *)
(***************************************************************************)
C2_NoAssetNoPanel ==
    [][ ( /\ ScanStep
          /\ MatchingFiles(assets) = {} )
        => /\ Issued = {}
           /\ awaiting_create' = awaiting_create
           /\ last_call'.op = "async_register_panel"
           /\ last_call'.outcome = "returned"
           /\ last_call'.error = ""
           /\ last_call'.request = {}
           /\ "create" \notin Steps(last_call')
           /\ DOMAIN frontend_panels' \subseteq DOMAIN frontend_panels ]_vars

C2_Witness ==
    /\ last_call.op = "async_register_panel"
    /\ last_call.outcome = "returned"
    /\ last_call.steps = <<"static", "glob">>
    /\ last_call.request = {}
    /\ ~assets.exists
    /\ frontend_panels = <<>>
    /\ awaiting_static = 0
    /\ awaiting_create = EmptyBag

(***************************************************************************)
(* C3  With at least one matching file in the assets directory when it is  *)
(* scanned, the custom-element registration requests a panel whose module  *)
(* URL has the path <static-prefix>/assets/<f> for a matching file f that  *)
(* is in the directory at that moment (the only one, when there is only    *)
(* one); when the creation succeeds, the registry's entry for the domain   *)
(* is that requested panel.                                                *)
(***************************************************************************)
C3_ModuleUrlPointsAtAsset ==
    [][ /\ ( /\ ScanStep
             /\ MatchingFiles(assets) # {} )
           => /\ Issued # {}
              /\ \A t \in Issued :
                    \E f \in MatchingFiles(assets) :
                       UrlPath(t.request.url) = <<CAFE_STATIC, "/assets/">> \o f
        /\ ( /\ CreateStep
             /\ last_call'.outcome = "returned" )
           => /\ CAFE_DOMAIN \in DOMAIN frontend_panels'
              /\ frontend_panels'[CAFE_DOMAIN] \in last_call'.request
              /\ \E t \in BagToSet(awaiting_create) :
                    t.request = frontend_panels'[CAFE_DOMAIN] ]_vars

C3_Witness ==
    /\ last_call.op = "async_register_panel"
    /\ last_call.outcome = "returned"
    /\ MatchingFiles(assets) = {IndexB}
    /\ IndexAMap \in assets.files
    /\ CAFE_DOMAIN \in DOMAIN frontend_panels
    /\ UrlPath(frontend_panels[CAFE_DOMAIN].url) = <<CAFE_STATIC, "/assets/">> \o IndexB
    /\ frontend_panels[CAFE_DOMAIN] \in last_call.request

(***************************************************************************)
(* C4  unregister never raises; without an entry for the domain it leaves  *)
(* the registry as it is, with one it removes exactly that entry.          *)
(***************************************************************************)
C4_UnregisterIdempotent ==
    [][ ( /\ AtomicStep
          /\ last_call'.op = "async_unregister_panel" )
        => /\ last_call'.outcome = "returned"
           /\ last_call'.error = ""
           /\ CAFE_DOMAIN \notin DOMAIN frontend_panels
                 => frontend_panels' = frontend_panels
           /\ CAFE_DOMAIN \notin DOMAIN frontend_panels'
           /\ DOMAIN frontend_panels' = DOMAIN frontend_panels \ {CAFE_DOMAIN}
           /\ \A k \in DOMAIN frontend_panels' : frontend_panels'[k] = frontend_panels[k]
           /\ static_paths' = static_paths ]_vars

C4_Witness ==
    /\ last_call.op = "async_unregister_panel"
    /\ last_call.outcome = "returned"
    /\ last_call.popped = {}
    /\ FLOW_URL_PATH \in DOMAIN frontend_panels
    /\ CAFE_DOMAIN \notin DOMAIN frontend_panels

(***************************************************************************)
(* C5  Every panel creation request, of either kind, carries               *)
(* frontend_url_path equal to the integration's domain identifier and      *)
(* require_admin = true.                                                   *)
(***************************************************************************)
C5_UrlPathIsDomain ==
    /\ \A r \in last_call.request :
          /\ r.frontend_url_path = DomainOf(last_call.op)
          /\ r.require_admin = TRUE
    /\ \A t \in BagToSet(awaiting_create) :
          /\ t.request.frontend_url_path = CAFE_DOMAIN
          /\ t.request.require_admin = TRUE

(***************************************************************************)
(* C6  Once the custom-element registration has found its script, the      *)
(* creation request is issued whatever the removal of a prior entry did    *)
(* (found nothing, or raised) and nothing leaves the handler at that       *)
(* point; an error leaving the handler afterwards is the creation call's,  *)
(* never the removal's.                                                    *)
(***************************************************************************)
C6_RemovalSwallowed ==
    [][ /\ ( /\ ScanStep
             /\ MatchingFiles(assets) # {} )
           => /\ Issued # {}
              /\ last_call' = last_call
        /\ ( /\ CreateStep
             /\ last_call'.outcome = "raised" )
           => /\ <<"create", last_call'.error>> \in last_call'.host_errors
              /\ <<"pop", last_call'.error>> \notin last_call'.host_errors ]_vars

C6_Witness ==
    /\ last_call.op = "async_register_panel"
    /\ <<"pop", "AttributeError">> \in last_call.host_errors
    /\ last_call.popped = {}
    /\ last_call.outcome = "returned"
    /\ CAFE_DOMAIN \in DOMAIN frontend_panels
    /\ frontend_panels[CAFE_DOMAIN] \in last_call.request

(***************************************************************************)
(* C7  A failure of the host's static-path or panel creation call leaves   *)
(* the register handler as that same error; after a failed static-path     *)
(* call nothing else was done: no scan, no removal, no creation request,   *)
(* and the registry is as before.                                          *)
(***************************************************************************)
C7_HostErrorsPropagate ==
    [][ ( /\ EndStep
          /\ last_call'.op \in RegisterOps )
        => \A he \in last_call'.host_errors :
              /\ he[1] \in {"static", "create"}
                    => /\ last_call'.outcome = "raised"
                       /\ last_call'.error = he[2]
              /\ he[1] = "static"
                    => /\ last_call'.steps = <<"static">>
                       /\ last_call'.request = {}
                       /\ last_call'.popped = {}
                       /\ frontend_panels' = frontend_panels
                       /\ awaiting_static' = awaiting_static
                       /\ awaiting_create' = awaiting_create ]_vars

C7_Witness ==
    /\ last_call.op = "async_register_panel"
    /\ last_call.outcome = "raised"
    /\ last_call.error = "RuntimeError"
    /\ <<"static", "RuntimeError">> \in last_call.host_errors
    /\ MatchingFiles(assets) # {}
    /\ CAFE_DOMAIN \in DOMAIN frontend_panels
    /\ awaiting_static = 0
    /\ awaiting_create = EmptyBag

(***************************************************************************)
(* C8  The iframe registration never scans the assets directory; every     *)
(* panel it requests, and the entry it leaves on success, has the URL      *)
(* <static-prefix>/index.html with no query string.                        *)
(***************************************************************************)
C8_IframeFixedUrl ==
    /\ last_call.op = "async_setup"
          => /\ "glob" \notin Steps(last_call)
             /\ \A r \in last_call.request :
                   /\ UrlPath(r.url) = <<FLOW_STATIC, "/index.html">>
                   /\ UrlQuery(r.url) = <<>>
                   /\ QueryMarks(r.url) = {}
             /\ last_call.outcome = "returned"
                   => /\ last_call.request # {}
                      /\ FLOW_URL_PATH \in DOMAIN frontend_panels
                      /\ frontend_panels[FLOW_URL_PATH] \in last_call.request
    /\ FLOW_URL_PATH \in DOMAIN frontend_panels
          => frontend_panels[FLOW_URL_PATH].url = <<FLOW_STATIC, "/index.html">>

C8_Witness ==
    /\ last_call.op = "async_setup"
    /\ last_call.outcome = "returned"
    /\ ncalls = 1
    /\ MatchingFiles(assets) = {IndexA, IndexB}
    /\ frontend_panels[FLOW_URL_PATH].url = <<FLOW_STATIC, "/index.html">>

(***************************************************************************)
(* C9  The module URL's query string is v=<numeral>, the numeral being the *)
(* whole second of the clock when the registration builds the URL; against *)
(* the entry the registration replaces, and against the registration that  *)
(* ended last before it, v has not decreased, and it differs from that     *)
(* one's when the two URLs were built a second or more apart.              *)
(***************************************************************************)
C9_CacheBust ==
    [][ ScanStep
        => \A t \in Issued :
              /\ HasCacheBust(t.request.url)
              /\ CacheBustOf(t.request.url) >= 0
              /\ CacheBustOf(t.request.url) * TicksPerSec <= clock
              /\ clock < (CacheBustOf(t.request.url) + 1) * TicksPerSec
              /\ t.time = clock
              /\ \A p \in t.popped : CacheBustOf(p.url) <= CacheBustOf(t.request.url)
              /\ last_call.op = "async_register_panel"
                    => \A q \in last_call.request :
                          /\ CacheBustOf(q.url) <= CacheBustOf(t.request.url)
                          /\ clock - last_call.time >= TicksPerSec
                                => CacheBustOf(q.url) # CacheBustOf(t.request.url) ]_vars

C9_Witness ==
    /\ last_call.op = "async_register_panel"
    /\ last_call.outcome = "returned"
    /\ \E r \in last_call.request, p \in last_call.popped :
          /\ CacheBustOf(p.url) = 9
          /\ CacheBustOf(r.url) = 10
          /\ UrlQuery(r.url) = <<"v", "=", "1", "0">>
          /\ frontend_panels[CAFE_DOMAIN] = r

(***************************************************************************)
(* C10  A custom-element registration that stops for want of a matching    *)
(* script has not touched the panel registry, neither when it registered   *)
(* its static path nor when it scanned and returned: an earlier entry for  *)
(* the domain is still there, and the static path is registered.           *)
(***************************************************************************)
C10_AbortKeepsRegistry ==
    [][ /\ BeginStep
           => /\ frontend_panels' = frontend_panels
              /\ CafeStaticPath \in static_paths'
        /\ ( /\ ScanStep
             /\ Issued = {} )
           => /\ frontend_panels' = frontend_panels
              /\ CafeStaticPath \in static_paths'
              /\ last_call'.request = {}
              /\ last_call'.popped = {} ]_vars

C10_Witness ==
    /\ last_call.op = "async_register_panel"
    /\ last_call.outcome = "returned"
    /\ last_call.request = {}
    /\ MatchingFiles(assets) = {}
    /\ CAFE_DOMAIN \in DOMAIN frontend_panels
    /\ CafeStaticPath \in static_paths

====
